---- MODULE Spec2Model ----
(***************************************************************************)
(* Session, pooling and transaction layer of the MariaDB datasource        *)
(* (class MariaDB of src/index.js and its earlier variant                  *)
(* src/unnamed/part_000).  JavaScript runs every synchronous function body *)
(* to completion, so each method call is one action and each callback the  *)
(* driver invokes later is another action.                                 *)
(***************************************************************************)
EXTENDS Integers, Sequences, FiniteSets, TLC

\* ---------------------------------------------------------------- bounds
MaxObjs == 2
MaxPools == 2
ConnLimit == 1
MaxPending == 2
MaxTime == 2

\* ---------------------------------------------------------------- domains
Variants == {"index", "part000"}
Sids == {"s1", "s2"}
SettingNames == {"p", "q"}
Names == {"A", "B"}
Forms == {"async", "sync"}
NULL == "null"
NoObj == 0
NoPool == 0
NoConn == <<0, 0>>
Objs == 1..MaxObjs
PoolIds == 1..MaxPools
Conns == PoolIds \X (1..ConnLimit)

VARIABLES
    variant,      \* which source file is running: index.js or part_000
    created,      \* one settings name per mysql.createPool call, in call order
    pools,        \* datasource pool cache: settings name -> pool instance
    staticPool,   \* MariaDB.pool, the static of part_000
    nObjs,        \* number of MariaDB objects constructed so far
    objs,         \* the fields of each MariaDB object
    sessions,     \* datasource.sessions: session id -> registered object
    connState,    \* driver: each physical connection is free, busy or ended
    observers,    \* driver: the session ids whose "end" listener sits on a connection
    pendingConn,  \* driver: outstanding pool.getConnection requests per object
    pendingRel,   \* driver: outstanding connection.release calls
    queue,        \* driver: commands queued on each physical connection
    disconnected, \* history: a release of the handle the object holds has completed
    txOpen,       \* per physical connection, whether the server has a transaction open on it
    now,          \* the clock read by new Date().getTime()
    calls,        \* for <<session, call form>>, the latest query call and its response
    running,      \* the session whose executeQuerySync polling loop holds the thread
    since,        \* history: name of the first startTransaction made from a quiet Idle
    last          \* history: the step taken last

vars == <<variant, created, pools, staticPool, nObjs, objs, sessions, connState,
          observers, pendingConn, pendingRel, queue, txOpen, now, calls, running,
          disconnected, since, last>>

qvars == <<now, calls, running>>

NoLast == [op |-> "init", o |-> NoObj, arg |-> NULL, preTx |-> NULL,
           preConn |-> NoConn, conn |-> NoConn, preLen |-> 0, issued |-> FALSE,
           err |-> "none"]

Blank == [sid |-> NULL, cname |-> NULL, pool |-> NoPool,
          connection |-> NoConn, transaction |-> NULL]

\* const response = { executionTime: date.getTime(), executionDateTime: date }
newResponse(t) ==
    [executionTime |-> t, executionDateTime |-> t, query |-> NULL,
     params |-> NULL, fields |-> NULL, results |-> NULL, error |-> NULL]

\* No call of that form was made yet.
NoCall ==
    [command |-> NULL, isProduction |-> FALSE, resp |-> newResponse(0),
     state |-> "none", wait |-> FALSE, start |-> 0, done |-> 0,
     fired |-> FALSE, failed |-> FALSE, settles |-> 0, delivered |-> FALSE,
     preTx |-> NULL, registered |-> FALSE]

Init ==
    /\ variant \in Variants
    /\ created = << >>
    /\ pools = [n \in SettingNames |-> NoPool]
    /\ staticPool = NoPool
    /\ nObjs = 0
    /\ objs = [o \in Objs |-> Blank]
    /\ sessions = [s \in Sids |-> NoObj]
    /\ connState = [c \in Conns |-> "free"]
    /\ observers = [c \in Conns |-> {}]
    /\ pendingConn = [o \in Objs |-> 0]
    /\ pendingRel = {}
    /\ queue = [c \in Conns |-> << >>]
    /\ txOpen = [c \in Conns |-> FALSE]
    /\ now = 1
    /\ calls = [x \in {} |-> NoCall]
    /\ running = NoObj
    /\ disconnected = [o \in Objs |-> FALSE]
    /\ since = [o \in Objs |-> NULL]
    /\ last = NoLast

\* ------------------------------------------------------------ pool registry

\* Number of mysql.createPool calls made with the settings of name n.
FactoryCalls(n) == Cardinality({i \in 1..Len(created) : created[i] = n})

\* mysql.createPool({...this, multipleStatements: true}): a new pool instance.
createPool(n) == Append(created, n)

\* datasource.getPool(name, factory): the cached pool, built by factory() once.
getPoolHit(n) == pools[n] # NoPool

\* Mutation: the "??" is dropped and a pool is created on every nativeConnect.
staticPoolMissing_always == TRUE

\* MariaDB.pool = MariaDB.pool ?? mysql.createPool(...): create only when unset.
staticPoolMissing == staticPool = NoPool

\* The pool an object's getConnection goes to: this.pool in index.js, the value
\* MariaDB.pool had when nativeConnect ran in part_000.
PoolOf(o) == objs[o].pool

\* ------------------------------------------------------------ construction

\* The datasource makes a session for an id only while it has no entry for it,
\* and enters the new object under its id.
sessionAbsent(sid) == sessions[sid] = NoObj
registerSession(reg, sid, o) == [reg EXCEPT ![sid] = o]

\* new MariaDB(connectionParameters, datasource, sessionId, connectionSettingName),
\* made by the datasource for a session id it has no entry for.
constructor(sid, cname) ==
    /\ nObjs < MaxObjs
    /\ sessionAbsent(sid)
    /\ LET o == nObjs + 1
           hit == getPoolHit(cname)
           p == IF variant # "index" THEN NoPool
                ELSE IF hit THEN pools[cname] ELSE Len(created) + 1
       IN  /\ variant = "index" /\ ~hit => Len(created) < MaxPools
           /\ nObjs' = o
           /\ IF variant = "index" /\ ~hit
              THEN /\ created' = createPool(cname)
                   /\ pools' = [pools EXCEPT ![cname] = p]
              ELSE UNCHANGED <<created, pools>>
           /\ objs' = [objs EXCEPT ![o] = [Blank EXCEPT !.sid = sid, !.cname = cname,
                                                        !.pool = p]]
           /\ sessions' = registerSession(sessions, sid, o)
           /\ last' = [NoLast EXCEPT !.op = "constructor", !.o = o, !.arg = cname]
    /\ UNCHANGED <<variant, txOpen, now, calls, running, staticPool, connState, observers, pendingConn,
                   pendingRel, queue, disconnected, since>>

\* ------------------------------------------------------------ connect

\* A pool hands out one of its physical connections that is free.
FreeIn(p) == {c \in Conns : c[1] = p /\ connState[c] = "free"}

\* Mutation: the guard is dropped and every nativeConnect borrows.
needsBorrow_always(o) == TRUE

\* if (!this.connection): the borrow is made only when no connection is held.
needsBorrow(o) == objs[o].connection = NoConn

\* nativeConnect(callback), up to its await: in part_000 the static pool is set
\* first; then pool.getConnection is issued unless a connection is held.
nativeConnect(o) ==
    /\ objs[o].sid # NULL
    /\ LET make == variant = "part000" /\ staticPoolMissing
           borrow == needsBorrow(o)
       IN  /\ make => Len(created) < MaxPools
           /\ borrow => pendingConn[o] < MaxPending
           /\ IF make
              THEN /\ created' = createPool(objs[o].cname)
                   /\ staticPool' = Len(created) + 1
              ELSE UNCHANGED <<created, staticPool>>
           /\ objs' = IF variant = "part000"
                      THEN [objs EXCEPT ![o].pool = staticPool']
                      ELSE objs
           /\ pendingConn' = IF borrow
                             THEN [pendingConn EXCEPT ![o] = @ + 1]
                             ELSE pendingConn
           /\ last' = [NoLast EXCEPT !.op = "nativeConnect", !.o = o,
                                     !.preConn = objs[o].connection,
                                     !.preLen = pendingConn[o],
                                     !.issued = borrow]
    /\ UNCHANGED <<variant, txOpen, now, calls, running, pools, nObjs, sessions, connState, observers,
                   pendingRel, queue, disconnected, since>>

\* Mutation: callback(err) is called before the error is looked at.
connectCallbackCalled_always(err) == TRUE

\* callback(err) is reached only past "if (err) return reject(err)".
connectCallbackCalled(err) == ~err

\* The callback of pool.getConnection with err set: reject(err); the await in
\* nativeConnect throws, this.connection keeps its value, callback is not called.
getConnectionError(o) ==
    /\ pendingConn[o] > 0
    /\ PoolOf(o) # NoPool
    /\ pendingConn' = [pendingConn EXCEPT ![o] = @ - 1]
    /\ last' = [NoLast EXCEPT !.op = "getConnectionError", !.o = o,
                              !.preConn = objs[o].connection,
                              !.issued = connectCallbackCalled(TRUE),
                              !.err = "ConnectionAcquisitionError"]
    /\ UNCHANGED <<variant, txOpen, now, calls, running, created, pools, staticPool, nObjs, objs, sessions,
                   connState, observers, pendingRel, queue, disconnected, since>>

\* The callback of pool.getConnection with a connection: the "end" listener is
\* added, callback(err) runs, resolve(conn) lets nativeConnect store the handle.
getConnectionCallback(o, c) ==
    /\ pendingConn[o] > 0
    /\ c \in FreeIn(PoolOf(o))
    /\ pendingConn' = [pendingConn EXCEPT ![o] = @ - 1]
    /\ connState' = [connState EXCEPT ![c] = "busy"]
    /\ observers' = [observers EXCEPT ![c] = @ \cup {objs[o].sid}]
    /\ objs' = [objs EXCEPT ![o].connection = c]
    /\ disconnected' = [disconnected EXCEPT ![o] = FALSE]
    /\ last' = [NoLast EXCEPT !.op = "getConnectionCallback", !.o = o,
                              !.preConn = objs[o].connection, !.conn = c,
                              !.issued = connectCallbackCalled(FALSE)]
    /\ UNCHANGED <<variant, txOpen, now, calls, running, created, pools, staticPool, nObjs, sessions,
                   pendingRel, queue, since>>

\* ------------------------------------------------------------ disconnect

\* nativeDisconnect(): this.connection.release(callback); the field is not reset.
nativeDisconnect(o) ==
    /\ objs[o].sid # NULL
    /\ LET c == objs[o].connection
       IN  IF c = NoConn
           THEN /\ last' = [NoLast EXCEPT !.op = "nativeDisconnect", !.o = o,
                                          !.err = "TypeError"]
                /\ UNCHANGED pendingRel
           ELSE /\ <<o, c>> \notin pendingRel
                /\ pendingRel' = pendingRel \cup {<<o, c>>}
                /\ last' = [NoLast EXCEPT !.op = "nativeDisconnect", !.o = o,
                                          !.preConn = c, !.conn = c, !.issued = TRUE]
    /\ UNCHANGED <<variant, txOpen, now, calls, running, created, pools, staticPool, nObjs, objs, sessions,
                   connState, observers, pendingConn, queue, disconnected, since>>

\* delete this.datasource.sessions[this.sessionId]
deleteSession(reg, sid) == [reg EXCEPT ![sid] = NoObj]

\* What the release callback does to the registry: on releaseError it logs and
\* returns, otherwise it deletes the entry of this.sessionId.
releaseEffect(reg, sid, releaseError) ==
    IF releaseError THEN reg ELSE deleteSession(reg, sid)

\* The driver completes a release and invokes the callback given to it.  A
\* release that succeeded has put the connection back into its pool.
releaseCallback(o, c, releaseError) ==
    /\ <<o, c>> \in pendingRel
    /\ pendingRel' = pendingRel \ {<<o, c>>}
    /\ connState' = IF ~releaseError /\ connState[c] = "busy"
                    THEN [connState EXCEPT ![c] = "free"]
                    ELSE connState
    /\ sessions' = releaseEffect(sessions, objs[o].sid, releaseError)
    /\ disconnected' = [disconnected EXCEPT ![o] = (objs[o].connection = c)]
    /\ last' = [NoLast EXCEPT !.op = "releaseCallback", !.o = o, !.conn = c,
                              !.preConn = objs[o].connection,
                              !.arg = IF releaseError THEN "releaseError" ELSE NULL]
    /\ UNCHANGED <<variant, txOpen, now, calls, running, created, pools, staticPool, nObjs, objs, observers,
                   pendingConn, queue, since>>

\* The "end" event of a physical connection while a session has it borrowed:
\* every listener added to it runs delete dbConn.datasource.sessions[sessionId].
connEnd(c) ==
    /\ connState[c] = "busy" \/ (connState[c] = "free" /\ observers[c] # {})
    /\ connState' = [connState EXCEPT ![c] = "ended"]
    /\ sessions' = [s \in Sids |-> IF s \in observers[c] THEN NoObj ELSE sessions[s]]
    /\ last' = [NoLast EXCEPT !.op = "connEnd", !.conn = c]
    /\ txOpen' = [txOpen EXCEPT ![c] = FALSE]
    /\ UNCHANGED <<variant, now, calls, running, created, pools, staticPool, nObjs, objs, observers,
                   pendingConn, pendingRel, queue, disconnected, since>>

\* ------------------------------------------------------------ transactions

Cmd(k, o, n) == [k |-> k, o |-> o, n |-> n]

\* A driver-level begin of object o is issued and its callback has not run yet.
BeginPending(o) ==
    \E c \in Conns : \E i \in 1..Len(queue[c]) :
        queue[c][i].k = "begin" /\ queue[c][i].o = o

\* if (!this.transaction)
noTransaction(o) == objs[o].transaction = NULL

\* Mutation: the name is not compared, any active transaction matches.
nameMatches_ignoresName(o, name) == objs[o].transaction # NULL

\* if (this.transaction === name)
nameMatches(o, name) == objs[o].transaction = name

\* startTransaction(name): connection.beginTransaction(callback) when no name is
\* stored; the name is stored by the callback, not here.
startTransaction(o, name) ==
    /\ objs[o].sid # NULL
    /\ LET c == objs[o].connection
           begin == noTransaction(o)
       IN  IF begin /\ c = NoConn
           THEN /\ last' = [NoLast EXCEPT !.op = "startTransaction", !.o = o,
                                          !.arg = name, !.err = "TypeError"]
                /\ UNCHANGED <<queue, since>>
           ELSE /\ begin => Len(queue[c]) < MaxPending
                /\ queue' = IF begin
                            THEN [queue EXCEPT ![c] = Append(@, Cmd("begin", o, name))]
                            ELSE queue
                /\ since' = IF begin /\ since[o] = NULL /\ ~BeginPending(o)
                            THEN [since EXCEPT ![o] = name]
                            ELSE since
                /\ last' = [NoLast EXCEPT !.op = "startTransaction", !.o = o,
                                          !.arg = name, !.conn = c,
                                          !.preTx = objs[o].transaction,
                                          !.preLen = Len(queue[c]),
                                          !.issued = begin]
    /\ UNCHANGED <<variant, txOpen, now, calls, running, created, pools, staticPool, nObjs, objs, sessions,
                   connState, observers, pendingConn, pendingRel,
                   disconnected>>

\* Mutation: the assignment is forgotten and the name stays.
rollbackEffect_keepsName(tx) == tx

\* The stored name after rollback(name) has matched: this.transaction = null.
rollbackEffect(tx) == NULL

\* rollback(name): connection.rollback() without a callback, then the name is
\* cleared at once.
rollback(o, name) ==
    /\ objs[o].sid # NULL
    /\ LET c == objs[o].connection
           match == nameMatches(o, name)
       IN  /\ match => Len(queue[c]) < MaxPending
           /\ queue' = IF match
                       THEN [queue EXCEPT ![c] = Append(@, Cmd("rollback", o, name))]
                       ELSE queue
           /\ objs' = IF match
                      THEN [objs EXCEPT ![o].transaction = rollbackEffect(@)]
                      ELSE objs
           /\ last' = [NoLast EXCEPT !.op = "rollback", !.o = o, !.arg = name,
                                     !.conn = c, !.preTx = objs[o].transaction,
                                     !.preLen = IF c = NoConn THEN 0 ELSE Len(queue[c]),
                                     !.issued = match]
    /\ since' = [since EXCEPT ![o] = NULL]
    /\ UNCHANGED <<variant, txOpen, now, calls, running, created, pools, staticPool, nObjs, sessions,
                   connState, observers, pendingConn, pendingRel,
                   disconnected>>

\* commit(name): connection.commit(callback) when the name matches; the stored
\* name is left to the callback.
commit(o, name) ==
    /\ objs[o].sid # NULL
    /\ LET c == objs[o].connection
           match == nameMatches(o, name)
       IN  /\ match => Len(queue[c]) < MaxPending
           /\ queue' = IF match
                       THEN [queue EXCEPT ![c] = Append(@, Cmd("commit", o, name))]
                       ELSE queue
           /\ last' = [NoLast EXCEPT !.op = "commit", !.o = o, !.arg = name,
                                     !.conn = c, !.preTx = objs[o].transaction,
                                     !.preLen = IF c = NoConn THEN 0 ELSE Len(queue[c]),
                                     !.issued = match]
    /\ since' = [since EXCEPT ![o] = NULL]
    /\ UNCHANGED <<variant, txOpen, now, calls, running, created, pools, staticPool, nObjs, objs, sessions,
                   connState, observers, pendingConn, pendingRel,
                   disconnected>>

\* ------------------------------------------------------------ driver completions

\* The driver runs the commands of a connection in the order they were queued;
\* on a connection that has ended every command fails.
HeadIs(c, k) == Len(queue[c]) > 0 /\ queue[c][1].k = k
MayReport(c, error) == connState[c] = "ended" => error

\* Mutation: the name is stored before the error is looked at.
beginCallbackEffect_storesAnyway(tx, name, transactionError) == name

\* The callback given to beginTransaction: throws on transactionError, stores
\* the name otherwise.
beginCallbackEffect(tx, name, transactionError) ==
    IF transactionError THEN tx ELSE name

beginTransactionCallback(c, transactionError) ==
    /\ HeadIs(c, "begin")
    /\ MayReport(c, transactionError)
    /\ LET h == queue[c][1]
       IN  /\ objs' = [objs EXCEPT ![h.o].transaction =
                          beginCallbackEffect(@, h.n, transactionError)]
           /\ since' = IF transactionError
                       THEN [since EXCEPT ![h.o] = NULL]
                       ELSE since
           /\ last' = [NoLast EXCEPT !.op = "beginCallback", !.o = h.o, !.arg = h.n,
                                     !.conn = c, !.preTx = objs[h.o].transaction,
                                     !.preLen = Len(queue[c]),
                                     !.err = IF transactionError
                                             THEN "TransactionStartError"
                                             ELSE "none"]
    /\ queue' = [queue EXCEPT ![c] = Tail(@)]
    /\ txOpen' = [txOpen EXCEPT ![c] = @ \/ ~transactionError]
    /\ UNCHANGED <<variant, now, calls, running, created, pools, staticPool, nObjs, sessions,
                   connState, observers, pendingConn, pendingRel,
                   disconnected>>

\* Mutation: the else branch is lost, a successful commit leaves the name.
commitCallbackEffect_keepsName(tx, commitError) == tx

\* Mutation: the name is cleared before the error is looked at.
commitCallbackEffect_alwaysClears(tx, commitError) == NULL

\* The callback given to commit: throws on commitError, clears the name
\* otherwise.
commitCallbackEffect(tx, commitError) ==
    IF commitError THEN tx ELSE NULL

commitCallback(c, commitError) ==
    /\ HeadIs(c, "commit")
    /\ MayReport(c, commitError)
    /\ LET h == queue[c][1]
       IN  /\ objs' = [objs EXCEPT ![h.o].transaction =
                          commitCallbackEffect(@, commitError)]
           /\ last' = [NoLast EXCEPT !.op = "commitCallback", !.o = h.o, !.arg = h.n,
                                     !.conn = c, !.preTx = objs[h.o].transaction,
                                     !.preLen = Len(queue[c]),
                                     !.err = IF commitError
                                             THEN "TransactionCommitError"
                                             ELSE "none"]
    /\ queue' = [queue EXCEPT ![c] = Tail(@)]
    /\ txOpen' = [txOpen EXCEPT ![c] = @ /\ commitError]
    /\ UNCHANGED <<variant, now, calls, running, created, pools, staticPool, nObjs, sessions,
                   connState, observers, pendingConn, pendingRel, disconnected, since>>

\* connection.rollback() was given no callback: the driver completes it and
\* nothing of the session changes, whatever the outcome.
rollbackDone(c) ==
    /\ HeadIs(c, "rollback")
    /\ queue' = [queue EXCEPT ![c] = Tail(@)]
    /\ last' = [NoLast EXCEPT !.op = "rollbackDone", !.o = queue[c][1].o,
                              !.conn = c, !.preLen = Len(queue[c]),
                              !.preTx = objs[queue[c][1].o].transaction]
    /\ txOpen' = [txOpen EXCEPT ![c] = FALSE]
    /\ UNCHANGED <<variant, now, calls, running, created, pools, staticPool, nObjs, objs, sessions,
                   connState, observers, pendingConn, pendingRel, disconnected, since>>

\* ------------------------------------------------------------ queries
\* executeNativeQueryAsync and executeQuerySync hand the command to
\* connection.query with a completion callback.  The driver runs that callback
\* once per command: at once, before query() returns, when it can settle the
\* command on the spot (the layer does not choose the driver's timing),
\* otherwise later, from the event loop.
Commands == {"SQL1", "SQL2"}
Params == "params"

\* What the suspend form stores as response.params.
responseParams(params) ==
    IF variant = "index" THEN "params.parameters" ELSE params

\* if (!this.datasource.aReS.isProduction()) { response.query = ...; response.params = ... }
describeQuery(resp, isProduction, command, params) ==
    IF isProduction
    THEN resp
    ELSE [resp EXCEPT !.query = command, !.params = responseParams(params)]

\* The arguments (error, results, fields) the driver passes to the callback.
driverError(error) == IF error THEN "QueryError" ELSE NULL
driverResults(error) == IF error THEN NULL ELSE "rows"
driverFields(error) == IF error THEN NULL ELSE "fields"

\* new Date().getTime() - response.executionTime
elapsed(t, start) == t - start

\* Mutation: response.error is never assigned.
storedError_dropped(error) == NULL

\* response.error = error
storedError(error) == driverError(error)

\* The body of the suspend form's callback, up to the settlement.
asyncCompletion(resp, t, error) ==
    [resp EXCEPT !.executionTime = elapsed(t, @),
                 !.fields = driverFields(error),
                 !.results = driverResults(error),
                 !.error = storedError(error)]

\* Mutation: the promise is resolved whatever the driver reported.
settle_alwaysResolves(error) == "resolved"

\* if (error) reject(response); else resolve(response);
settle(error) == IF error THEN "rejected" ELSE "resolved"

\* The blocking form's callback computes the duration in part_000 only.
syncExecutionTime(t, start) ==
    IF variant = "part000" THEN elapsed(t, start) ELSE start

\* The body of the blocking form's callback, up to callback(response).
syncCompletion(resp, t, error) ==
    [resp EXCEPT !.executionTime = syncExecutionTime(t, @),
                 !.fields = driverFields(error),
                 !.results = driverResults(error),
                 !.error = storedError(error)]

\* One query call: its response object, the promise state or the position of
\* the blocking call, and history (issue and completion timestamps, driver
\* outcome, number of settlements, transaction at issue, whether the registry
\* had the session's entry at issue).
NewCall(o, form, command, isProduction, resp) ==
    [command |-> command, isProduction |-> isProduction,
     resp |-> resp, state |-> "pending", wait |-> form = "sync",
     start |-> now, done |-> 0, fired |-> FALSE, failed |-> FALSE,
     settles |-> 0, delivered |-> FALSE, preTx |-> objs[o].transaction,
     registered |-> sessions[objs[o].sid] = o]

\* The state of a call after its callback ran at time t with the given outcome.
Completed(call, form, t, error) ==
    IF form = "async"
    THEN [call EXCEPT !.resp = asyncCompletion(@, t, error),
                      !.state = settle(error),
                      !.settles = @ + 1,
                      !.delivered = TRUE,
                      !.done = t, !.fired = TRUE, !.failed = error]
    ELSE [call EXCEPT !.resp = syncCompletion(@, t, error),
                      !.wait = FALSE,
                      !.delivered = TRUE,
                      !.done = t, !.fired = TRUE, !.failed = error]

\* while (wait) {...}; return response, evaluated with the flag already down.
Returned(call) == [call EXCEPT !.state = "returned"]

\* The driver settles a command on the spot only when nothing is queued
\* before it on that connection.
CanSettleAtOnce(c) == Len(queue[c]) = 0

\* The latest call of that form the session made, if any.
Call(o, form) == IF <<o, form>> \in DOMAIN calls THEN calls[<<o, form>>] ELSE NoCall

\* calls with the entry of that session and form replaced.
Record(o, form, call) == (<<o, form>> :> call) @@ calls

\* A session has at most one call of each form outstanding.
Outstanding(o, form) == Call(o, form).state \in {"pending", "polling"}

executeNativeQueryAsync(o, command, isProduction, immediate, error) ==
    /\ objs[o].sid # NULL
    /\ objs[o].connection # NoConn
    /\ ~Outstanding(o, "async")
    /\ LET c == objs[o].connection
           call == NewCall(o, "async", command, isProduction,
                           describeQuery(newResponse(now), isProduction,
                                         command, Params))
       IN  /\ IF immediate
              THEN /\ CanSettleAtOnce(c)
                   /\ MayReport(c, error)
                   /\ calls' = Record(o, "async",
                                       Completed(call, "async", now, error))
                   /\ queue' = queue
              ELSE /\ ~error
                   /\ calls' = Record(o, "async", call)
                   /\ queue' = [queue EXCEPT ![c] =
                                   Append(@, Cmd("query", o, "async"))]
           /\ last' = [NoLast EXCEPT !.op = "executeNativeQueryAsync", !.o = o,
                                     !.arg = "async", !.conn = c,
                                     !.preTx = objs[o].transaction,
                                     !.preLen = Len(queue[c]),
                                     !.issued = TRUE]
    /\ UNCHANGED <<variant, txOpen, now, running, created, pools, staticPool, nObjs,
                   objs, sessions, connState, observers, pendingConn,
                   pendingRel, disconnected, since>>

executeQuerySync(o, command, isProduction, immediate, error) ==
    /\ objs[o].sid # NULL
    /\ objs[o].connection # NoConn
    /\ ~Outstanding(o, "sync")
    /\ LET c == objs[o].connection
           call == NewCall(o, "sync", command, isProduction, newResponse(now))
       IN  /\ IF immediate
              THEN /\ CanSettleAtOnce(c)
                   /\ MayReport(c, error)
                   /\ calls' = Record(o, "sync",
                                       Returned(Completed(call, "sync", now, error)))
                   /\ queue' = queue
                   /\ running' = running
              ELSE /\ ~error
                   /\ calls' = Record(o, "sync", [call EXCEPT !.state = "polling"])
                   /\ queue' = [queue EXCEPT ![c] =
                                   Append(@, Cmd("query", o, "sync"))]
                   /\ running' = o
           /\ last' = [NoLast EXCEPT !.op = "executeQuerySync", !.o = o,
                                     !.arg = "sync", !.conn = c,
                                     !.preTx = objs[o].transaction,
                                     !.preLen = Len(queue[c]),
                                     !.issued = TRUE]
    /\ UNCHANGED <<variant, txOpen, now, created, pools, staticPool, nObjs,
                   objs, sessions, connState, observers, pendingConn,
                   pendingRel, disconnected, since>>

\* The completion callback of a queued query.
queryCallback(c, error) ==
    /\ HeadIs(c, "query")
    /\ MayReport(c, error)
    /\ LET h == queue[c][1]
       IN  /\ calls' = Record(h.o, h.n, Completed(Call(h.o, h.n), h.n, now, error))
           /\ last' = [NoLast EXCEPT !.op = "queryCallback", !.o = h.o,
                                     !.arg = h.n, !.conn = c,
                                     !.preTx = objs[h.o].transaction,
                                     !.preLen = Len(queue[c]),
                                     !.err = IF error THEN "QueryError" ELSE "none"]
    /\ queue' = [queue EXCEPT ![c] = Tail(@)]
    /\ UNCHANGED <<variant, txOpen, now, running, created, pools, staticPool, nObjs,
                   objs, sessions, connState, observers, pendingConn,
                   pendingRel, disconnected, since>>

\* One evaluation of while (wait) in executeQuerySync: another round
\* (asyncConsole.log, setTimeout) or, with the flag down, return response.
poll(o) ==
    /\ running = o
    /\ IF Call(o, "sync").wait
       THEN /\ calls' = calls
            /\ running' = running
       ELSE /\ calls' = Record(o, "sync", Returned(Call(o, "sync")))
            /\ running' = NoObj
    /\ last' = [NoLast EXCEPT !.op = "poll", !.o = o, !.arg = "sync"]
    /\ UNCHANGED <<variant, txOpen, now, created, pools, staticPool, nObjs, objs,
                   sessions, connState, observers, pendingConn, pendingRel,
                   queue, disconnected, since>>

\* Time passes.
tick ==
    /\ now < MaxTime
    /\ now' = now + 1
    /\ UNCHANGED <<variant, txOpen, calls, running, created, pools, staticPool, nObjs,
                   objs, sessions, connState, observers, pendingConn,
                   pendingRel, queue, disconnected, since, last>>

\* ------------------------------------------------------------ specifications

\* Calls and driver events of the connection, registry and pool layer.
ConnStep ==
    \/ \E sid \in Sids, cname \in SettingNames : constructor(sid, cname)
    \/ \E o \in Objs : nativeConnect(o)
    \/ \E o \in Objs : getConnectionError(o)
    \/ \E o \in Objs, c \in Conns : getConnectionCallback(o, c)
    \/ \E o \in Objs : nativeDisconnect(o)
    \/ \E o \in Objs, c \in Conns, e \in BOOLEAN : releaseCallback(o, c, e)
    \/ \E c \in Conns : connEnd(c)

\* Calls and driver events of the transaction state machine of the objects O.
TxStep(O) ==
    \/ \E o \in O, n \in Names : startTransaction(o, n)
    \/ \E o \in O, n \in Names : rollback(o, n)
    \/ \E o \in O, n \in Names : commit(o, n)
    \/ \E c \in Conns, e \in BOOLEAN : beginTransactionCallback(c, e)
    \/ \E c \in Conns, e \in BOOLEAN : commitCallback(c, e)
    \/ \E c \in Conns : rollbackDone(c)

\* A function body or a callback starts only when no synchronous function body
\* holds the thread.
Idle == running = NoObj

QueryCalls(O) ==
    \/ \E o \in O, q \in Commands, p, im, e \in BOOLEAN :
          executeNativeQueryAsync(o, q, p, im, e)
    \/ \E o \in O, q \in Commands, p, im, e \in BOOLEAN :
          executeQuerySync(o, q, p, im, e)

Next ==
    \/ Idle /\ (ConnStep \/ TxStep(Objs) \/ QueryCalls(Objs))
    \/ Idle /\ \E c \in Conns, e \in BOOLEAN : queryCallback(c, e)
    \/ \E o \in Objs : poll(o)
    \/ tick

Spec == Init /\ [][Next]_vars

\* The connection layer alone: sessions that connect and disconnect, each
\* caller awaiting one nativeConnect before it makes the next.  Session ids
\* and settings names are interchangeable, so the first session constructed is
\* taken to be s1 on p.  Connections end while they are borrowed.
NextConn ==
    \/ \E sid \in Sids, cname \in SettingNames :
          /\ nObjs = 0 => sid = "s1" /\ cname = "p"
          /\ constructor(sid, cname)
    \/ \E o \in Objs : pendingConn[o] = 0 /\ nativeConnect(o)
    \/ \E o \in Objs : getConnectionError(o)
    \/ \E o \in Objs, c \in Conns : getConnectionCallback(o, c)
    \/ \E o \in Objs : nativeDisconnect(o)
    \/ \E o \in Objs, c \in Conns, e \in BOOLEAN : releaseCallback(o, c, e)
    \/ \E c \in Conns : connState[c] = "busy" /\ connEnd(c)

SpecConn == Init /\ [][NextConn]_vars

\* The connection layer with pooled connections that may also end while they
\* lie idle in the pool.
NextEnd ==
    \/ NextConn
    \/ \E c \in Conns : connEnd(c)

SpecEnd == Init /\ [][NextEnd]_vars

\* The transaction state machine of one session, from its construction on; its
\* caller awaits one nativeConnect before it makes the next.
TxObjs == {1}

NextTx ==
    \/ \E sid \in Sids, cname \in SettingNames :
          nObjs + 1 \in TxObjs /\ constructor(sid, cname)
    \/ \E o \in TxObjs : pendingConn[o] = 0 /\ nativeConnect(o)
    \/ \E o \in TxObjs, c \in Conns : getConnectionCallback(o, c)
    \/ \E c \in Conns : connEnd(c)
    \/ TxStep(TxObjs)

SpecTx == Init /\ [][NextTx]_vars

\* One connected session issuing queries, with a transaction it may have
\* started.  A callback of the driver is a task of the event loop: it runs only
\* when no synchronous function body holds the thread.
QObjs == {1}

DriverCallbacks ==
    /\ Idle
    /\ \/ \E o \in QObjs, c \in Conns : getConnectionCallback(o, c)
       \/ \E c \in Conns, e \in BOOLEAN : beginTransactionCallback(c, e)
       \/ \E c \in Conns, e \in BOOLEAN : queryCallback(c, e)

NextQuery ==
    \/ Idle /\ nObjs + 1 \in QObjs /\ constructor("s1", "p")
    \/ \E o \in QObjs : Idle /\ pendingConn[o] = 0 /\ needsBorrow(o) /\ nativeConnect(o)
    \/ \E o \in QObjs : Idle /\ noTransaction(o) /\ ~BeginPending(o) /\ startTransaction(o, "A")
    \/ Idle /\ QueryCalls(QObjs)
    \/ DriverCallbacks
    \/ \E o \in QObjs : poll(o)
    \/ tick

SpecQuery == Init /\ [][NextQuery]_vars

\* The whole life of one session: connects that may overlap, a transaction, a
\* query of the suspend form, disconnect, and the end of its connection.
LifeObjs == {1}

NextLife ==
    \/ nObjs + 1 \in LifeObjs /\ constructor("s1", "p")
    \/ \E o \in LifeObjs : nativeConnect(o)
    \/ \E o \in LifeObjs, c \in Conns : getConnectionCallback(o, c)
    \/ \E o \in LifeObjs : nativeDisconnect(o)
    \/ \E o \in LifeObjs, c \in Conns, e \in BOOLEAN : releaseCallback(o, c, e)
    \/ \E c \in Conns : connEnd(c)
    \/ \E o \in LifeObjs : startTransaction(o, "A")
    \/ \E c \in Conns, e \in BOOLEAN : beginTransactionCallback(c, e)
    \/ \E o \in LifeObjs, im, e \in BOOLEAN :
          executeNativeQueryAsync(o, "SQL1", FALSE, im, e)
    \/ \E c \in Conns, e \in BOOLEAN : queryCallback(c, e)

SpecLife == Init /\ [][NextLife]_vars

\* ------------------------------------------------------------ properties

Constructed(o) == objs[o].sid # NULL
Tx(o) == objs[o].transaction
LastQueue == queue[last.conn]

\* C1: on an Idle session, startTransaction(A) followed by startTransaction(B)
\* with no commit or rollback in between leaves the name A, also when B is
\* called before the callback of the first begin has run.
C1_NoOverwrite ==
    \A o \in Objs : since[o] # NULL => Tx(o) \in {NULL, since[o]}

\* C2: in Active(n), commit(m) and rollback(m) with m # n issue no driver
\* command and leave the session in Active(n).
C2_MismatchIgnored ==
    (last.op \in {"commit", "rollback"} /\ last.preTx # NULL /\ last.arg # last.preTx)
        => /\ Tx(last.o) = last.preTx
           /\ LastQueue = SubSeq(LastQueue, 1, last.preLen)

C2_Witness ==
    /\ last.op = "commit" /\ last.preTx = "A" /\ last.arg = "B"
    /\ Tx(last.o) = "A"

\* C3: in Active(n), commit(n) issues a driver commit and leaves the name set;
\* the name is cleared by the callback once the driver reports success.
C3_CommitClearsOnSuccess ==
    /\ (last.op = "commit" /\ last.preTx # NULL /\ last.arg = last.preTx)
          => /\ Len(LastQueue) = last.preLen + 1
             /\ LastQueue[Len(LastQueue)] = Cmd("commit", last.o, last.arg)
             /\ Tx(last.o) = last.preTx
    /\ (last.op = "commitCallback" /\ last.err = "none") => Tx(last.o) = NULL

C3_Witness ==
    /\ last.op = "commitCallback" /\ last.err = "none"
    /\ last.preTx = "A" /\ last.arg = "A" /\ Tx(last.o) = NULL

\* C4: when the driver commit of commit(n) fails, a commit error is thrown, the
\* name stays as it was and no driver rollback is issued.
C4_CommitFailureKeepsName ==
    (last.op = "commitCallback" /\ last.err # "none")
        => /\ last.err = "TransactionCommitError"
           /\ Tx(last.o) = last.preTx
           /\ Len(LastQueue) = last.preLen - 1

C4_Witness ==
    /\ last.op = "commitCallback" /\ last.err = "TransactionCommitError"
    /\ last.preTx = "A" /\ last.arg = "A" /\ Tx(last.o) = "A"

\* C5: in Active(n), rollback(n) issues a driver rollback and the session is
\* Idle at once; the driver's completion of the rollback changes nothing.
C5_RollbackClears ==
    /\ (last.op = "rollback" /\ last.preTx # NULL /\ last.arg = last.preTx)
          => /\ Tx(last.o) = NULL
             /\ Len(LastQueue) = last.preLen + 1
             /\ LastQueue[Len(LastQueue)].k = "rollback"
    /\ last.op = "rollbackDone" => Tx(last.o) = last.preTx

C5_Witness ==
    /\ last.op = "rollback" /\ last.preTx = "A" /\ last.arg = "A"
    /\ Tx(last.o) = NULL

\* No release of the object's handle has been asked for since it was borrowed.
NotDisconnected(o) ==
    /\ ~disconnected[o]
    /\ \A c \in Conns : <<o, c>> \notin pendingRel

\* C6: connect() on a session that holds a connection and has not disconnected
\* keeps the same connection and asks the pool for nothing.
C6_ConnectIdempotent ==
    (last.op = "nativeConnect" /\ last.preConn # NoConn /\ NotDisconnected(last.o))
        => /\ objs[last.o].connection = last.preConn
           /\ pendingConn[last.o] = last.preLen
           /\ ~last.issued

C6_Witness ==
    /\ last.op = "nativeConnect" /\ last.preConn # NoConn
    /\ NotDisconnected(last.o)
    /\ objs[last.o].connection = last.preConn
    /\ connState[last.preConn] = "busy"

\* C7: once the release of a disconnect has completed, with or without a
\* release error, the registry has no entry for the session id and nothing was
\* raised.
C7_ReleaseRemovesEntry ==
    last.op = "releaseCallback"
        => /\ sessions[objs[last.o].sid] = NoObj
           /\ last.err = "none"

\* C8: after a disconnect has completed, connect() for the same session id
\* (which the registry still resolves to this session) borrows from the pool
\* again instead of keeping the released handle.
C8_FreshBorrowAfterDisconnect ==
    (/\ last.op = "nativeConnect"
     /\ disconnected[last.o]
     /\ sessions[objs[last.o].sid] = last.o)
        => last.issued

\* C9: no physical connection is the borrowed connection of two sessions.
C9_ExclusiveBorrow ==
    \A o1, o2 \in Objs :
        (o1 # o2 /\ Constructed(o1) /\ Constructed(o2)
         /\ objs[o1].connection # NoConn)
            => objs[o1].connection # objs[o2].connection

\* C10: the pool factory runs at most once per settings name, and all sessions
\* of one settings name that obtained a pool obtained the same instance.
C10_SinglePoolPerName ==
    /\ \A n \in SettingNames : FactoryCalls(n) <= 1
    /\ \A o1, o2 \in Objs :
          (objs[o1].cname = objs[o2].cname
           /\ PoolOf(o1) # NoPool /\ PoolOf(o2) # NoPool)
              => PoolOf(o1) = PoolOf(o2)

C10_Witness ==
    \E o1, o2 \in Objs :
        /\ o1 # o2 /\ Constructed(o1)
        /\ objs[o1].cname = objs[o2].cname
        /\ PoolOf(o1) # NoPool /\ PoolOf(o1) = PoolOf(o2)
        /\ FactoryCalls(objs[o1].cname) = 1


\* C11: a call of the suspend form settles at most once and only when the
\* driver's completion callback has fired; it is resolved with the response
\* when the driver reported no error and rejected with the response carrying
\* that error when the driver reported one.
C11_SettlesOnceAfterCallback ==
    \A o \in Objs :
        LET call == Call(o, "async")
        IN  /\ call.settles <= 1
            /\ call.state \in {"none", "pending", "resolved", "rejected"}
            /\ call.state \in {"resolved", "rejected"} <=> call.settles = 1
            /\ call.settles = 1 <=> call.fired
            /\ call.state = "resolved" <=> (call.fired /\ ~call.failed)
            /\ call.state = "rejected" <=> (call.fired /\ call.failed)
            /\ call.state = "resolved" => call.resp.error = NULL
            /\ call.state = "rejected" => call.resp.error = "QueryError"

C11_Witness ==
    /\ last.op = "queryCallback"
    /\ last.arg = "async"
    /\ last.err = "QueryError"
    /\ Call(last.o, "async").state = "rejected"
    /\ Call(last.o, "async").settles = 1
    /\ Call(last.o, "async").resp.error = "QueryError"

\* C12: a query the driver failed delivers, in either call form, a response
\* whose error is set and whose results are absent, and the step that
\* delivers it leaves the session's transaction name as it was.
C12_FailedQueryResponse ==
    /\ \A o \in Objs, f \in Forms :
          (Call(o, f).delivered /\ Call(o, f).failed) =>
              /\ Call(o, f).resp.error # NULL
              /\ Call(o, f).resp.results = NULL
    /\ last.op \in {"queryCallback", "executeNativeQueryAsync", "executeQuerySync"} =>
          Tx(last.o) = last.preTx

C12_Witness ==
    /\ last.op = "queryCallback"
    /\ last.err = "QueryError"
    /\ last.preTx = "A"
    /\ Tx(last.o) = "A"
    /\ Call(last.o, "async").failed
    /\ Call(last.o, "async").resp.error = "QueryError"
    /\ Call(last.o, "sync").failed
    /\ Call(last.o, "sync").delivered

\* C13: a delivered response carries the query text, equal to the SQL that
\* was issued, and the parameters exactly when the production flag was false,
\* and neither of them when it was true, in the suspend form and in the
\* blocking form.
C13_QueryTextOnlyOutsideProduction ==
    \A o \in Objs, f \in Forms :
        Call(o, f).delivered =>
            IF Call(o, f).isProduction
            THEN Call(o, f).resp.query = NULL /\ Call(o, f).resp.params = NULL
            ELSE Call(o, f).resp.query = Call(o, f).command
                 /\ Call(o, f).resp.params # NULL

\* C14: the polling loop of executeQuerySync comes to an end: while it runs
\* with the flag still up, the driver's completion callback is able to run.
C14_PollingLoopTerminates ==
    \A o \in Objs :
        (Call(o, "sync").state = "polling" /\ Call(o, "sync").wait) =>
            ENABLED DriverCallbacks

\* C15: the execution time of the response of every completed query, in
\* either form, is the completion timestamp minus the issue timestamp.
C15_ExecutionTimeIsDuration ==
    \A o \in Objs, f \in Forms :
        Call(o, f).fired =>
            Call(o, f).resp.executionTime = Call(o, f).done - Call(o, f).start

\* A begin of session o that was outstanding before the step recorded in last.
BeginPendingBefore(o) ==
    \E c \in Conns : \E i \in 1..Len(queue[c]) :
        /\ queue[c][i].k = "begin" /\ queue[c][i].o = o
        /\ c = last.conn => i <= last.preLen

\* C16: startTransaction issues a driver-level begin only when the session is
\* Idle and has no driver-level begin outstanding.
C16_NoSecondBegin ==
    (last.op = "startTransaction" /\ last.issued)
        => /\ last.preTx = NULL
           /\ ~BeginPendingBefore(last.o)

\* C17: a step changes a set transaction name only to unset, and only when it
\* is the successful completion of a commit of that name or a rollback of that
\* name.
C17_SetNameOnlyCleared ==
    [][\A o \in Objs :
          (Tx(o) # NULL /\ Tx(o)' # Tx(o)) =>
              /\ Tx(o)' = NULL
              /\ last'.o = o
              /\ last'.arg = Tx(o)
              /\ \/ last'.op = "commitCallback" /\ last'.err = "none"
                 \/ last'.op = "rollback"]_vars

\* C18: when the driver-level begin of startTransaction(name) fails, a
\* transaction-start error is raised and the name is not recorded: the
\* session's transaction name is what it was, unset for an Idle session.
C18_BeginFailureStaysIdle ==
    (last.op = "beginCallback" /\ last.err # "none")
        => /\ last.err = "TransactionStartError"
           /\ Tx(last.o) = last.preTx
           /\ last.preTx = NULL => Tx(last.o) = NULL

C18_Witness ==
    /\ last.op = "beginCallback"
    /\ last.err = "TransactionStartError"
    /\ last.arg = "A"
    /\ last.preTx = NULL
    /\ Tx(last.o) = NULL
    /\ connState[last.conn] = "busy"

\* C19: when the pool reports an error instead of a connection, connect fails
\* with that error, the connect callback is not called and the session holds
\* no connection; a connect made with no connection held asks the pool.
C19_FailedBorrow ==
    /\ last.op = "getConnectionError"
          => /\ last.err = "ConnectionAcquisitionError"
             /\ ~last.issued
             /\ objs[last.o].connection = NoConn
             /\ needsBorrow(last.o)
    /\ (last.op = "nativeConnect" /\ last.preConn = NoConn)
          => /\ last.issued
             /\ pendingConn[last.o] = last.preLen + 1

C19_Witness ==
    /\ last.op = "getConnectionError"
    /\ last.err = "ConnectionAcquisitionError"
    /\ objs[last.o].connection = NoConn
    /\ pendingConn[last.o] = 0
    /\ sessions[objs[last.o].sid] = last.o

\* C20: when a physical connection ends, the registry entry of the session
\* that borrowed it is removed, and the entry of a session that holds another
\* connection is not.
C20_EndRemovesOnlyBorrower ==
    [][\A c \in Conns :
          (connState[c] # "ended" /\ connState'[c] = "ended") =>
              \A s \in Sids :
                  sessions[s] # NoObj =>
                      /\ objs[sessions[s]].connection = c => sessions'[s] = NoObj
                      /\ objs[sessions[s]].connection \notin {c, NoConn}
                            => sessions'[s] = sessions[s]]_vars

\* C21: two sessions made with different settings names send their
\* getConnection to two different pools, each created from the settings of
\* the session that uses it.
C21_PoolPerSettingsName ==
    \A o1, o2 \in Objs :
        (/\ Constructed(o1) /\ Constructed(o2)
         /\ objs[o1].cname # objs[o2].cname
         /\ PoolOf(o1) # NoPool /\ PoolOf(o2) # NoPool)
            => /\ PoolOf(o1) # PoolOf(o2)
               /\ created[PoolOf(o1)] = objs[o1].cname
               /\ created[PoolOf(o2)] = objs[o2].cname

\* A command of kind k that session o had outstanding, with name n, before the
\* step recorded in last.
PendingBefore(k, o, n) ==
    \E c \in Conns : \E i \in 1..Len(queue[c]) :
        /\ queue[c][i] = Cmd(k, o, n)
        /\ c = last.conn => i <= last.preLen

\* With no command outstanding on the live connection a session holds, the
\* name is set exactly when a transaction is open on that connection.
NameMatchesDriver ==
    \A o \in Objs :
        LET c == objs[o].connection
        IN  (Constructed(o) /\ c # NoConn /\ connState[c] = "busy" /\ queue[c] = << >>)
                => (Tx(o) # NULL <=> txOpen[c])

\* C24: the stored name is set exactly when a driver-level transaction is
\* open on the session's connection; a commit(n) or rollback(n) that follows
\* startTransaction(n) at once issues the driver command that ends it, and a
\* commit(n) is issued to the driver only when no commit of the session is
\* outstanding.
C24_NameIffDriverTx ==
    /\ NameMatchesDriver
    /\ (last.op \in {"commit", "rollback"} /\ PendingBefore("begin", last.o, last.arg))
          => last.issued
    /\ (last.op = "commit" /\ last.issued)
          => ~PendingBefore("commit", last.o, last.arg)

\* C22: a query issued by a session that has no registry entry any more is
\* not executed on the connection the session used to hold: when it completes,
\* it completes with an error that reaches the caller as a rejection.
C22_QueryWithoutEntryRejected ==
    \A o \in Objs :
        (Call(o, "async").fired /\ ~Call(o, "async").registered)
            => /\ Call(o, "async").failed
               /\ Call(o, "async").state = "rejected"

\* C23: every physical connection taken from a pool and not released is the
\* recorded connection of exactly one session, and a connect made while a
\* borrow of the same session is outstanding asks the pool for nothing.
C23_OneBorrowPerSession ==
    /\ \A c \in Conns :
          connState[c] = "busy" =>
              Cardinality({o \in Objs : Constructed(o) /\ objs[o].connection = c}) = 1
    /\ (last.op = "nativeConnect" /\ last.preLen > 0) => ~last.issued

\* C25: when a release puts a physical connection back into its pool, no
\* driver-level transaction is open on that connection.
C25_NoReleaseInTransaction ==
    (last.op = "releaseCallback" /\ last.arg = NULL /\ connState[last.conn] = "free")
        => ~txOpen[last.conn]

====
